---- MODULE Spec2Model ----
(***************************************************************************)
(* Model of langchain/prompts/few_shot.py: the example-acquisition mixin   *)
(* (_FewShotPromptTemplateMixin), the string composer                      *)
(* (FewShotPromptTemplate) and the message composer                        *)
(* (FewShotChatMessagePromptTemplate).                                     *)
(*                                                                         *)
(* Text is a sequence of tokens.  A token is a literal character or a      *)
(* replacement field such as "{x}".  An Optional value is <<>> (None) or   *)
(* <<v>> (the value v), so that None and the empty list stay distinct.     *)
(***************************************************************************)
EXTENDS Naturals, Sequences, FiniteSets, TLC

VARIABLES
    prompt,   \* Optional composer: <<>> before construction, <<self>> after
    ctor,     \* the last constructor call: its arguments and its outcome
    last      \* the last method call on the composer, with what it did

vars == <<prompt, ctor, last>>

(***************************************************************************)
(* Bounds of the model.                                                    *)
(***************************************************************************)
\* longest list of examples configured or returned by a selector
MaxExamples == 2

(***************************************************************************)
(* Optional values, results and errors.                                    *)
(***************************************************************************)
None == <<>>
Some(v) == <<v>>
IsNone(o) == o = <<>>
IsSome(o) == o # <<>>

NoError == [type |-> "none", detail |-> ""]
Error(t, d) == [type |-> t, detail |-> d]
Return(v) == [ok |-> TRUE, value |-> v, error |-> NoError]
Raise(t, d) == [ok |-> FALSE, value |-> <<>>, error |-> Error(t, d)]

Range(s) == {s[i] : i \in 1..Len(s)}

RECURSIVE Flatten(_)
Flatten(ss) == IF ss = <<>> THEN <<>> ELSE Head(ss) \o Flatten(Tail(ss))

\* all sequences over S of length at most n
SeqsUpTo(S, n) == UNION {[1..k -> S] : k \in 0..n}

(***************************************************************************)
(* Text and the formatting engine.                                         *)
(***************************************************************************)
FieldTokens == {"{x}", "{y}", "{q}", "{r}"}
IsField(tok) == tok \in FieldTokens
FieldName(tok) ==
    CASE tok = "{x}" -> "x"
      [] tok = "{y}" -> "y"
      [] tok = "{q}" -> "q"
      [] tok = "{r}" -> "r"

\* the names of the replacement fields of a text
FieldNames(text) == {FieldName(text[i]) : i \in {j \in 1..Len(text) : IsField(text[j])}}

RECURSIVE Substitute(_, _)
Substitute(template, kwargs) ==
    IF template = <<>> THEN <<>>
    ELSE (IF IsField(Head(template))
            THEN kwargs[FieldName(Head(template))]
            ELSE <<Head(template)>>)
         \o Substitute(Tail(template), kwargs)

\* formatter.format(template, **kwargs): every replacement field is replaced
\* by its value, which is not scanned again; the first field without a value
\* raises KeyError naming it.
formatter_format(template, kwargs) ==
    LET missing == SelectSeq(template,
                     LAMBDA tok : IsField(tok) /\ FieldName(tok) \notin DOMAIN kwargs)
    IN  IF missing # <<>>
          THEN Raise("KeyError", FieldName(missing[1]))
          ELSE Return(Substitute(template, kwargs))

\* DEFAULT_FORMATTER_MAPPING: the names of the formatting engines
DEFAULT_FORMATTER_MAPPING == {"f-string"}

\* check_valid_template(template, template_format, input_variables)
check_valid_template(template, template_format, input_variables) ==
    IF template_format \notin DEFAULT_FORMATTER_MAPPING
      THEN Raise("ValueError", "invalid template format")
    ELSE IF FieldNames(template) # Range(input_variables)
      THEN Raise("ValueError", "invalid prompt schema")
    ELSE Return(<<>>)

\* {**partial_kwargs, **kwargs}: a value of the caller wins
_merge_partial_and_user_variables(self, kwargs) ==
    [k \in DOMAIN self.partial_variables \cup DOMAIN kwargs |->
        IF k \in DOMAIN kwargs THEN kwargs[k] ELSE self.partial_variables[k]]

\* PromptTemplate.format(**kwargs) of the example prompt
PromptTemplate_format(example_prompt, kwargs) ==
    formatter_format(example_prompt.template, kwargs)

(***************************************************************************)
(* Python truthiness of the two mixin fields (lines 42 and 162): None and  *)
(* the empty list are falsy, a selector object is truthy.                  *)
(***************************************************************************)
TruthyList(o) == IsSome(o) /\ Len(o[1]) > 0
TruthyObject(o) == IsSome(o)

(***************************************************************************)
(* _FewShotPromptTemplateMixin                                             *)
(***************************************************************************)
check_examples_and_selector(values) ==
    IF TruthyList(values.examples) /\ TruthyObject(values.example_selector)
      THEN Raise("ValueError", "only one")
    ELSE IF IsNone(values.examples) /\ IsNone(values.example_selector)
      THEN Raise("ValueError", "one of")
    ELSE Return(values)

\* example_selector.select_examples(kwargs): answer is what the selector does
\* on this invocation, [raises |-> BOOLEAN, examples |-> list]
select_examples(answer, kwargs) ==
    IF answer.raises THEN Raise("SelectorError", "select_examples")
    ELSE Return(answer.examples)

\* a result together with the select_examples invocations made to get it
WithCalls(r, calls) ==
    [ok |-> r.ok, value |-> r.value, error |-> r.error, selector_calls |-> calls]

\* a mutation: the static list is tested by truthiness
_get_examples_Truthy(self, kwargs, answer) ==
    IF TruthyList(self.examples)
      THEN WithCalls(Return(self.examples[1]), <<>>)
    ELSE IF IsSome(self.example_selector)
      THEN WithCalls(select_examples(answer, kwargs), <<kwargs>>)
    ELSE WithCalls(Raise("ValueError", "one of"), <<>>)

_get_examples(self, kwargs, answer) ==
    IF IsSome(self.examples)
      THEN WithCalls(Return(self.examples[1]), <<>>)
    ELSE IF IsSome(self.example_selector)
      THEN WithCalls(select_examples(answer, kwargs), <<kwargs>>)
    ELSE WithCalls(Raise("ValueError", "one of"), <<>>)

\* a mutation: the record is passed on whole
ProjectExample_Whole(e, input_variables) ==
    LET missing == SelectSeq(input_variables, LAMBDA k : k \notin DOMAIN e)
    IN  IF missing # <<>> THEN Raise("KeyError", missing[1])
        ELSE Return(e)

\* {k: e[k] for k in example_prompt.input_variables}
ProjectExample(e, input_variables) ==
    LET missing == SelectSeq(input_variables, LAMBDA k : k \notin DOMAIN e)
    IN  IF missing # <<>> THEN Raise("KeyError", missing[1])
        ELSE Return([k \in Range(input_variables) |-> e[k]])

\* a list comprehension [f(x) for x in xs] over results: the values up to the
\* first failure, and that failure
RECURSIVE Comprehend(_, _)
Comprehend(results, done) ==
    IF results = <<>> THEN Return(done)
    ELSE IF ~Head(results).ok THEN Raise(Head(results).error.type, Head(results).error.detail)
    ELSE Comprehend(Tail(results), Append(done, Head(results).value))

\* the calls a comprehension makes: up to and including the first that fails
RECURSIVE CallsMade(_)
CallsMade(results) ==
    IF results = <<>> THEN 0
    ELSE IF ~Head(results).ok THEN 1
    ELSE 1 + CallsMade(Tail(results))

ProjectExamples(examples, input_variables) ==
    Comprehend([i \in 1..Len(examples) |-> ProjectExample(examples[i], input_variables)],
               <<>>)

(***************************************************************************)
(* FewShotPromptTemplate                                                   *)
(***************************************************************************)
\* list(values["partial_variables"])
KeyList(mapping) == SelectSeq(<<"x", "y", "q", "r">>, LAMBDA k : k \in DOMAIN mapping)

\* a mutation: the partial variables are left out of the declared names
template_is_valid_NoPartials(values) ==
    IF values.validate_template
      THEN LET r == check_valid_template(values.prefix \o values.suffix,
                                         values.template_format,
                                         values.input_variables)
           IN  IF r.ok THEN Return(values) ELSE r
      ELSE Return(values)

template_is_valid(values) ==
    IF values.validate_template
      THEN LET r == check_valid_template(values.prefix \o values.suffix,
                                         values.template_format,
                                         values.input_variables
                                            \o KeyList(values.partial_variables))
           IN  IF r.ok THEN Return(values) ELSE r
      ELSE Return(values)

\* the pre root validator of the mixin runs first, then template_is_valid
FewShotPromptTemplate_init(values) ==
    LET pre == check_examples_and_selector(values)
    IN  IF pre.ok THEN template_is_valid(values) ELSE pre

\* str.join
RECURSIVE Join(_, _)
Join(sep, pieces) ==
    IF pieces = <<>> THEN <<>>
    ELSE IF Len(pieces) = 1 THEN pieces[1]
    ELSE pieces[1] \o sep \o Join(sep, Tail(pieces))

\* a mutation: the empty pieces are joined too
BuildTemplate_KeepEmpty(self, example_strings) ==
    Join(self.example_separator, <<self.prefix>> \o example_strings \o <<self.suffix>>)

\* pieces = [prefix, *example_strings, suffix]; the non-empty ones joined
BuildTemplate(self, example_strings) ==
    LET pieces == <<self.prefix>> \o example_strings \o <<self.suffix>>
    IN  Join(self.example_separator, SelectSeq(pieces, LAMBDA piece : piece # <<>>))

\* DEFAULT_FORMATTER_MAPPING[self.template_format](template, **kwargs)
FormatTemplate(self, template, kwargs) ==
    IF self.template_format \notin DEFAULT_FORMATTER_MAPPING
      THEN Raise("KeyError", self.template_format)
      ELSE formatter_format(template, kwargs)

\* a mutation: prefix and suffix are formatted, the examples joined in as they are
Assemble_ExamplesVerbatim(self, example_strings, kwargs) ==
    LET p == FormatTemplate(self, self.prefix, kwargs)
        s == FormatTemplate(self, self.suffix, kwargs)
    IN  IF ~p.ok THEN p
        ELSE IF ~s.ok THEN s
        ELSE Return(Join(self.example_separator,
                         SelectSeq(<<p.value>> \o example_strings \o <<s.value>>,
                                   LAMBDA piece : piece # <<>>)))

\* the overall template, formatted with the input variables
Assemble(self, example_strings, kwargs) ==
    FormatTemplate(self, BuildTemplate(self, example_strings), kwargs)

\* a mutation: an example that cannot be rendered is left out
FormatExamples_SkipFailed(example_prompt, examples) ==
    LET results == [i \in 1..Len(examples) |->
                       PromptTemplate_format(example_prompt, examples[i])]
        good == SelectSeq(results, LAMBDA r : r.ok)
    IN  Return([i \in 1..Len(good) |-> good[i].value])

\* [self.example_prompt.format(**example) for example in examples]
FormatExamples(example_prompt, examples) ==
    Comprehend([i \in 1..Len(examples) |->
                   PromptTemplate_format(example_prompt, examples[i])], <<>>)

\* format(**kwargs) with what it did on the way
FewShotPromptTemplate_format(self, inputs, answer) ==
    LET kwargs == _merge_partial_and_user_variables(self, inputs)
        got == _get_examples(self, kwargs, answer)
        input_variables == self.example_prompt.input_variables
        projected == IF got.ok THEN ProjectExamples(got.value, input_variables)
                     ELSE Raise(got.error.type, got.error.detail)
        renderings == [i \in 1..Len(projected.value) |->
                          PromptTemplate_format(self.example_prompt, projected.value[i])]
        rendered == IF projected.ok THEN FormatExamples(self.example_prompt, projected.value)
                    ELSE projected
        final == IF rendered.ok THEN Assemble(self, rendered.value, kwargs)
                 ELSE rendered
    IN  [op |-> "format",
         inputs |-> inputs,
         kwargs |-> kwargs,
         selector_calls |-> got.selector_calls,
         selector_answer |-> IF got.selector_calls # <<>> THEN Some(answer) ELSE None,
         examples |-> IF got.ok THEN Some(got.value) ELSE None,
         example_calls |-> SubSeq(projected.value, 1, CallsMade(renderings)),
         example_strings |-> rendered.value,
         template |-> IF rendered.ok THEN Some(BuildTemplate(self, rendered.value))
                      ELSE None,
         ok |-> final.ok,
         result |-> IF final.ok THEN Some(final.value) ELSE None,
         error |-> final.error]

\* dict(**kwargs)
FewShotPromptTemplate_dict(self) ==
    IF TruthyObject(self.example_selector)
      THEN Raise("ValueError", "saving an example selector is not supported")
      ELSE Return([config |-> self, _type |-> "few_shot"])
(***************************************************************************)
(* FewShotChatMessagePromptTemplate                                        *)
(*                                                                         *)
(* A message is [kind |-> "message", role, content].  A message template   *)
(* is [kind |-> "message_template", role, content] and a chat template is  *)
(* [kind |-> "chat_template", parts], parts being message templates.       *)
(***************************************************************************)
Message(role, content) == [kind |-> "message", role |-> role, content |-> content]
MessageTemplate(role, content) ==
    [kind |-> "message_template", role |-> role, content |-> content]
ChatTemplate(parts) == [kind |-> "chat_template", parts |-> parts]

\* format_messages(**kwargs) of a message template or of a chat template
Template_format_messages(template, kwargs) ==
    LET parts == IF template.kind = "chat_template" THEN template.parts
                 ELSE <<template>>
    IN  Comprehend([i \in 1..Len(parts) |->
                     LET r == formatter_format(parts[i].content, kwargs)
                     IN  IF r.ok THEN Return(Message(parts[i].role, r.value)) ELSE r],
                   <<>>)

\* isinstance(template, (BasePromptTemplate, BaseMessagePromptTemplate))
IsTemplate(entry) == entry.kind \in {"message_template", "chat_template"}

\* template.format_messages(**kwargs) if it is a template, else [template]
ExpandEntry(entry, kwargs) ==
    IF IsTemplate(entry) THEN Template_format_messages(entry, kwargs)
    ELSE Return(<<entry>>)

\* [message for template in entries for message in <the expansion of template>]
ExpandEntries(entries, kwargs) ==
    LET r == Comprehend([i \in 1..Len(entries) |-> ExpandEntry(entries[i], kwargs)], <<>>)
    IN  IF r.ok THEN Return(Flatten(r.value)) ELSE r

\* [message for example in examples
\*          for message in self.example_prompt.format_messages(**example)]
ExpandExamples(example_prompt, examples) ==
    LET r == Comprehend([i \in 1..Len(examples) |->
                            Template_format_messages(example_prompt, examples[i])], <<>>)
    IN  IF r.ok THEN Return(Flatten(r.value)) ELSE r

\* a mutation: the examples come first
ConcatMessages_ExamplesFirst(prefix_messages, messages, suffix_messages) ==
    messages \o prefix_messages \o suffix_messages

\* prefix_messages + messages + suffix_messages
ConcatMessages(prefix_messages, messages, suffix_messages) ==
    prefix_messages \o messages \o suffix_messages

\* format_messages(**kwargs) with what it did on the way
FewShotChatMessagePromptTemplate_format_messages(self, inputs, answer) ==
    LET got == _get_examples(self, inputs, answer)
        input_variables == self.example_prompt.input_variables
        projected == IF got.ok THEN ProjectExamples(got.value, input_variables)
                     ELSE Raise(got.error.type, got.error.detail)
        prefix_messages == IF projected.ok THEN ExpandEntries(self.prefix, inputs)
                           ELSE projected
        expansions == [i \in 1..Len(projected.value) |->
                          Template_format_messages(self.example_prompt, projected.value[i])]
        messages == IF prefix_messages.ok
                      THEN ExpandExamples(self.example_prompt, projected.value)
                      ELSE prefix_messages
        suffix_messages == IF messages.ok THEN ExpandEntries(self.suffix, inputs)
                           ELSE messages
    IN  [op |-> "format_messages",
         inputs |-> inputs,
         kwargs |-> inputs,
         selector_calls |-> got.selector_calls,
         selector_answer |-> IF got.selector_calls # <<>> THEN Some(answer) ELSE None,
         examples |-> IF got.ok THEN Some(got.value) ELSE None,
         example_calls |-> IF prefix_messages.ok
                             THEN SubSeq(projected.value, 1, CallsMade(expansions))
                             ELSE <<>>,
         ok |-> suffix_messages.ok,
         result |-> IF suffix_messages.ok
                      THEN Some(ConcatMessages(prefix_messages.value, messages.value,
                                               suffix_messages.value))
                      ELSE None,
         error |-> suffix_messages.error]

\* the mixin's pre root validator is the only check of the constructor
FewShotChatMessagePromptTemplate_init(values) ==
    check_examples_and_selector(values)

(***************************************************************************)
(* The values the model draws from.                                        *)
(***************************************************************************)
ExampleRecords ==
    { [q |-> <<"{x}">>],                 \* a value that reads as a replacement field
      [q |-> <<>>],                      \* an empty value
      [q |-> <<"b">>, r |-> <<"a">>] }

ExampleLists == SeqsUpTo(ExampleRecords, MaxExamples)

Selector == [name |-> "selector"]

\* what select_examples may do when invoked: raise, or return a list of records
SelectableRecords == { [q |-> <<"{x}">>], [q |-> <<"b">>, r |-> <<"a">>] }

Answers ==
    {[raises |-> TRUE, examples |-> <<>>]}
        \cup {[raises |-> FALSE, examples |-> l] : l \in SeqsUpTo(SelectableRecords, MaxExamples)}

ExampleSources == {None} \cup {Some(l) : l \in ExampleLists}
SelectorSources == {None, Some(Selector)}

NoVariables == [k \in {} |-> <<>>]

Inputs ==
    { NoVariables, [x |-> <<"a">>], [y |-> <<"b">>], [x |-> <<"a">>, y |-> <<"b">>] }

StringExamplePrompts ==
    { [template |-> <<"{q}">>, input_variables |-> <<"q">>],
      [template |-> <<"b", "{q}", "{r}">>, input_variables |-> <<"q", "r">>],
      \* a template that uses a variable it does not declare
      [template |-> <<"{q}", "{r}">>, input_variables |-> <<"q">>] }

StringValues ==
    [ kind : {"FewShotPromptTemplate"},
      examples : ExampleSources,
      example_selector : SelectorSources,
      validate_template : BOOLEAN,
      input_variables : {<<"x">>, <<"x", "y">>},
      example_prompt : StringExamplePrompts,
      suffix : {<<>>, <<"{y}">>},
      example_separator : {<<"\n", "\n">>},
      prefix : {<<>>, <<"a", "{x}">>},
      template_format : {"f-string", "mustache"},
      partial_variables : {NoVariables, [y |-> <<"a">>]} ]

M0 == Message("system", <<"a", "{x}">>)
M1 == Message("ai", <<"b">>)

ChatExamplePrompts ==
    { ChatTemplate(<<MessageTemplate("human", <<"{q}">>),
                     MessageTemplate("ai", <<"{r}">>)>>)
          @@ [input_variables |-> <<"q", "r">>],
      MessageTemplate("human", <<"{q}">>) @@ [input_variables |-> <<"q">>],
      \* a template that uses a variable it does not declare
      MessageTemplate("human", <<"{q}", "{r}">>) @@ [input_variables |-> <<"q">>] }

ChatValues ==
    [ kind : {"FewShotChatMessagePromptTemplate"},
      examples : ExampleSources,
      example_selector : SelectorSources,
      prefix : { <<>>, <<M0>>, <<M0, MessageTemplate("human", <<"{x}">>)>> },
      example_prompt : ChatExamplePrompts,
      suffix : { <<>>,
                 <<MessageTemplate("human", <<"{x}">>)>>,
                 <<ChatTemplate(<<MessageTemplate("human", <<"{y}">>),
                                  MessageTemplate("ai", <<"a">>)>>), M1>> } ]

(***************************************************************************)
(* The state machine: one composer is constructed, then called.            *)
(***************************************************************************)
NoCall == [op |-> "none"]

Init ==
    /\ prompt = None
    /\ ctor = NoCall
    /\ last = NoCall

Constructed(values, r) ==
    [op |-> values.kind, values |-> values, ok |-> r.ok, error |-> r.error]

\* FewShotPromptTemplate(**values)
NewFewShotPromptTemplate ==
    /\ ctor = NoCall
    /\ \E values \in StringValues :
          LET r == FewShotPromptTemplate_init(values)
          IN  /\ ctor' = Constructed(values, r)
              /\ prompt' = IF r.ok THEN Some(r.value) ELSE None
    /\ UNCHANGED last

\* FewShotChatMessagePromptTemplate(**values)
NewFewShotChatMessagePromptTemplate ==
    /\ ctor = NoCall
    /\ \E values \in ChatValues :
          LET r == FewShotChatMessagePromptTemplate_init(values)
          IN  /\ ctor' = Constructed(values, r)
              /\ prompt' = IF r.ok THEN Some(r.value) ELSE None
    /\ UNCHANGED last

\* what the selector of self may do in one call; without a selector there is
\* nothing to invoke
AnswersOf(self) ==
    IF IsSome(self.example_selector) THEN Answers
    ELSE {[raises |-> TRUE, examples |-> <<>>]}

\* prompt.format(**inputs)
Format ==
    /\ IsSome(prompt)
    /\ prompt[1].kind = "FewShotPromptTemplate"
    /\ \E inputs \in Inputs, answer \in AnswersOf(prompt[1]) :
          last' = FewShotPromptTemplate_format(prompt[1], inputs, answer)
    /\ UNCHANGED <<prompt, ctor>>

\* prompt.format_messages(**inputs)
FormatMessages ==
    /\ IsSome(prompt)
    /\ prompt[1].kind = "FewShotChatMessagePromptTemplate"
    /\ \E inputs \in Inputs, answer \in AnswersOf(prompt[1]) :
          last' = FewShotChatMessagePromptTemplate_format_messages(prompt[1], inputs, answer)
    /\ UNCHANGED <<prompt, ctor>>

\* prompt.dict()
Dict ==
    /\ IsSome(prompt)
    /\ prompt[1].kind = "FewShotPromptTemplate"
    /\ LET r == FewShotPromptTemplate_dict(prompt[1])
       IN  last' = [op |-> "dict", ok |-> r.ok,
                    result |-> IF r.ok THEN Some(r.value) ELSE None,
                    error |-> r.error]
    /\ UNCHANGED <<prompt, ctor>>

Next ==
    \/ NewFewShotPromptTemplate
    \/ NewFewShotChatMessagePromptTemplate
    \/ Format
    \/ FormatMessages
    \/ Dict

Spec == Init /\ [][Next]_vars

(***************************************************************************)
(* Properties.                                                             *)
(***************************************************************************)
Formatted == last.op \in {"format", "format_messages"}
self == prompt[1]

\* the record e cut down to the keys of input_variables
Restricted(e, input_variables) == [k \in Range(input_variables) |-> e[k]]

\* the examples of the last call that lack a key of the example prompt
Lacking(examples, input_variables) ==
    {i \in 1..Len(examples) : Range(input_variables) \ DOMAIN examples[i] # {}}

\* the two errors of check_examples_and_selector
SourceErrors == {"only one", "one of"}

\* C1: construction passes the examples / example_selector check if and only
\* if exactly one of the two is provided, an empty examples list counting as
\* provided; both or neither raise a configuration error, and every constructed
\* composer has exactly one of the two fields non-null.
C1_ExactlyOneOfExamplesAndSelector ==
    /\ ctor.op # "none" =>
          LET one == IsSome(ctor.values.examples) # IsSome(ctor.values.example_selector)
          IN  /\ ~one => (~ctor.ok /\ ctor.error.type = "ValueError"
                                   /\ ctor.error.detail \in SourceErrors)
              /\ one => ctor.error.detail \notin SourceErrors
    /\ IsSome(prompt) =>
          (IsSome(self.examples) # IsSome(self.example_selector))

\* C2: when examples is set, the empty list included, _get_examples returns
\* exactly the configured list for every input mapping and invokes no selector.
C2_StaticExamplesVerbatim ==
    (Formatted /\ IsSome(self.examples)) =>
        /\ last.examples = Some(self.examples[1])
        /\ last.selector_calls = <<>>

C2_Witness ==
    /\ Formatted
    /\ IsSome(self.examples)
    /\ Len(self.examples[1]) = 2
    /\ self.examples[1][1] # self.examples[1][2]
    /\ last.inputs # NoVariables

\* C3: every format / format_messages call on a composer configured with an
\* example selector invokes select_examples exactly once, with that call's
\* input mapping (merged with the partial variables in the string composer),
\* and works on exactly the examples that invocation returned.
C3_SelectorInvokedOncePerCall ==
    (Formatted /\ IsSome(self.example_selector)) =>
        /\ Len(last.selector_calls) = 1
        /\ last.selector_calls[1] =
              (IF last.op = "format"
                 THEN [k \in DOMAIN self.partial_variables \cup DOMAIN last.inputs |->
                          IF k \in DOMAIN last.inputs THEN last.inputs[k]
                          ELSE self.partial_variables[k]]
                 ELSE last.inputs)
        /\ ~last.selector_answer[1].raises =>
              last.examples = Some(last.selector_answer[1].examples)

\* the pieces of text between the occurrences of sep
RECURSIVE SplitOn(_, _, _)
SplitOn(text, sep, piece) ==
    IF text = <<>> THEN <<piece>>
    ELSE IF Len(text) >= Len(sep) /\ SubSeq(text, 1, Len(sep)) = sep
      THEN <<piece>> \o SplitOn(SubSeq(text, Len(sep) + 1, Len(text)), sep, <<>>)
    ELSE SplitOn(Tail(text), sep, Append(piece, Head(text)))

\* the non-empty ones of prefix, the rendered examples and suffix, in order
KeptPieces ==
    SelectSeq(<<self.prefix>> \o last.example_strings \o <<self.suffix>>,
              LAMBDA piece : piece # <<>>)

\* C4: the intermediate template of format is the non-empty pieces of
\* [prefix, render(E1), ..., render(En), suffix] in that order with exactly one
\* example_separator between neighbours and none at either end.
C4_TemplateIsKeptPiecesInOrder ==
    (last.op = "format" /\ IsSome(last.template)) =>
        /\ Len(last.example_strings) = Len(last.examples[1])
        /\ \A i \in 1..Len(last.example_strings) :
              last.example_strings[i] =
                  Substitute(self.example_prompt.template, last.examples[1][i])
        /\ IF KeptPieces = <<>> THEN last.template[1] = <<>>
           ELSE SplitOn(last.template[1], self.example_separator, <<>>) = KeptPieces

C4_Witness ==
    /\ last.op = "format"
    /\ IsSome(last.template)
    /\ self.prefix = <<>>
    /\ self.suffix # <<>>
    /\ Len(last.example_strings) = 2
    /\ last.example_strings[1] # <<>>
    /\ last.example_strings[2] # <<>>
    /\ last.example_strings[1] # last.example_strings[2]

\* the messages the entries of a prefix or suffix stand for
RECURSIVE EntryMessages(_, _)
EntryMessages(entries, inputs) ==
    IF entries = <<>> THEN <<>>
    ELSE (IF Head(entries).kind = "message" THEN <<Head(entries)>>
          ELSE Template_format_messages(Head(entries), inputs).value)
         \o EntryMessages(Tail(entries), inputs)

\* the messages of the examples, example by example
RECURSIVE ExampleMessages(_, _)
ExampleMessages(example_prompt, examples) ==
    IF examples = <<>> THEN <<>>
    ELSE Template_format_messages(
             example_prompt,
             Restricted(Head(examples), example_prompt.input_variables)).value
         \o ExampleMessages(example_prompt, Tail(examples))

\* C5: format_messages returns the prefix messages, then the messages of the
\* examples in list order, then the suffix messages; a literal message is
\* passed on unchanged and a template gives way to what it expands to.
C5_MessagesInOrder ==
    (last.op = "format_messages" /\ last.ok) =>
        last.result[1] = EntryMessages(self.prefix, last.inputs)
                            \o ExampleMessages(self.example_prompt, last.examples[1])
                            \o EntryMessages(self.suffix, last.inputs)

C5_Witness ==
    /\ last.op = "format_messages"
    /\ last.ok
    /\ Len(self.prefix) = 2
    /\ Len(self.suffix) = 2
    /\ self.example_prompt.kind = "chat_template"
    /\ Len(last.examples[1]) = 2
    /\ Len(last.result[1]) = 9

\* C6: each example is cut down to exactly the keys of
\* example_prompt.input_variables before it is rendered, so extra keys change
\* nothing, and an example that lacks a key fails the call with a key error
\* before anything is rendered.
C6_ExamplesProjected ==
    (Formatted /\ IsSome(last.examples)) =>
        LET input_variables == self.example_prompt.input_variables
            examples == last.examples[1]
            lacking == Lacking(examples, input_variables)
        IN  /\ \A i \in 1..Len(last.example_calls) :
                  last.example_calls[i] = Restricted(examples[i], input_variables)
            /\ lacking # {} =>
                  /\ ~last.ok
                  /\ last.error.type = "KeyError"
                  /\ \E i \in lacking :
                        last.error.detail \in Range(input_variables) \ DOMAIN examples[i]
                  /\ last.example_calls = <<>>
            /\ (lacking = {} /\ last.op = "format") =>
                  \A i \in 1..Len(last.example_strings) :
                      last.example_strings[i] =
                          PromptTemplate_format(self.example_prompt,
                                                Restricted(examples[i], input_variables)).value

C6_Witness ==
    /\ Formatted
    /\ last.ok
    /\ \E i \in 1..Len(last.examples[1]) :
          /\ Range(self.example_prompt.input_variables) # DOMAIN last.examples[1][i]
          /\ Range(self.example_prompt.input_variables) \subseteq DOMAIN last.examples[1][i]
          /\ i \in 1..Len(last.example_calls)

\* C7: dict fails whenever an example_selector is configured and succeeds,
\* returning the configuration, whenever a static examples list is configured,
\* an empty one included.
C7_DictFailsWithSelectorOnly ==
    last.op = "dict" =>
        /\ IsSome(self.example_selector) => ~last.ok
        /\ IsSome(self.examples) => (last.ok /\ last.result[1].config = self)

\* prefix + suffix does not use exactly the declared and the partial variables
Mismatch(values) ==
    FieldNames(values.prefix \o values.suffix)
        # Range(values.input_variables) \cup DOMAIN values.partial_variables

TemplateErrors == {"invalid prompt schema", "invalid template format"}

\* C8: with validate_template the constructor checks prefix + suffix against
\* input_variables plus the partial variable names and fails on a mismatch;
\* without it the constructor makes no such check; format never makes it.
C8_TemplateValidatedAtConstructionOnly ==
    /\ ctor.op = "FewShotPromptTemplate" =>
          /\ (ctor.values.validate_template /\ Mismatch(ctor.values)) => ~ctor.ok
          /\ (~ctor.ok /\ ctor.error.detail \in TemplateErrors) =>
                /\ ctor.values.validate_template
                /\ \/ Mismatch(ctor.values)
                   \/ ctor.values.template_format \notin DEFAULT_FORMATTER_MAPPING
    /\ (IsSome(prompt) /\ self.kind = "FewShotPromptTemplate"
            /\ self.validate_template) => ~Mismatch(self)
    /\ last.op = "format" =>
          /\ last.error.type # "ValueError"
          /\ (IsSome(last.template)
                /\ self.template_format \in DEFAULT_FORMATTER_MAPPING
                /\ FieldNames(last.template[1]) = DOMAIN last.kwargs) => last.ok

C8_Witness ==
    /\ last.op = "format"
    /\ last.ok
    /\ ~self.validate_template
    /\ Mismatch(self)

\* the names of the replacement fields an example prompt uses
ExamplePromptFields(example_prompt) ==
    IF "template" \in DOMAIN example_prompt THEN FieldNames(example_prompt.template)
    ELSE IF example_prompt.kind = "chat_template"
      THEN UNION {FieldNames(example_prompt.parts[j].content) :
                     j \in 1..Len(example_prompt.parts)}
    ELSE FieldNames(example_prompt.content)

\* the templates among entries that cannot be expanded with inputs
Unexpandable(entries, inputs) ==
    {i \in 1..Len(entries) :
        /\ IsTemplate(entries[i])
        /\ ~Template_format_messages(entries[i], inputs).ok}

\* C9: when the selector, the projection or the rendering of an example, the
\* expansion of a prefix or suffix template or the final formatting fails, the
\* call returns nothing and raises that error; no step is tried again.
C9_NoPartialSuccess ==
    Formatted =>
        /\ last.ok <=> IsSome(last.result)
        /\ last.ok <=> last.error = NoError
        /\ Len(last.selector_calls) <= 1
        /\ (IsSome(last.selector_answer) /\ last.selector_answer[1].raises) =>
              (~last.ok /\ last.error = Error("SelectorError", "select_examples"))
        /\ IsSome(last.examples) =>
              LET example_prompt == self.example_prompt
                  examples == last.examples[1]
                  lacking == Lacking(examples, example_prompt.input_variables)
                  unrendered ==
                      IF ExamplePromptFields(example_prompt)
                            \subseteq Range(example_prompt.input_variables)
                        THEN {} ELSE 1..Len(examples)
              IN  /\ lacking # {} => (~last.ok /\ last.error.type = "KeyError")
                  /\ unrendered # {} => (~last.ok /\ last.error.type = "KeyError")
                  /\ (lacking = {} /\ unrendered # {} /\ last.op = "format") =>
                        /\ Len(last.example_calls) = 1
                        /\ last.error.detail \notin Range(example_prompt.input_variables)
                  /\ (last.op = "format_messages"
                        /\ \/ Unexpandable(self.prefix, last.inputs) # {}
                           \/ Unexpandable(self.suffix, last.inputs) # {}) =>
                        (~last.ok /\ last.error.type = "KeyError")
                  /\ (last.op = "format" /\ IsSome(last.template)
                        /\ \/ self.template_format \notin DEFAULT_FORMATTER_MAPPING
                           \/ ~(FieldNames(last.template[1]) \subseteq DOMAIN last.kwargs)) =>
                        (~last.ok /\ last.error.type = "KeyError")

C9_Witness ==
    /\ last.op = "format_messages"
    /\ ~last.ok
    /\ IsNone(last.result)
    /\ Len(self.prefix) = 2
    /\ Unexpandable(self.prefix, last.inputs) = {}
    /\ Len(last.example_calls) = 2
    /\ Unexpandable(self.suffix, last.inputs) # {}

\* the names of the replacement fields of the rendered examples
ExampleFields ==
    UNION {FieldNames(last.example_strings[i]) : i \in 1..Len(last.example_strings)}

\* C10: the rendered examples are part of the template the final formatting
\* works on: a replacement field in a rendered example is replaced by the
\* merged input value, or fails the call when the merged inputs lack it.
C10_RenderedExamplesAreFormattedAgain ==
    (last.op = "format" /\ IsSome(last.template)
        /\ self.template_format \in DEFAULT_FORMATTER_MAPPING) =>
        /\ ~(ExampleFields \subseteq DOMAIN last.kwargs) =>
              (~last.ok /\ last.error.type = "KeyError")
        /\ last.ok =>
              last.result[1] =
                  Join(self.example_separator,
                       [i \in 1..Len(KeptPieces) |-> Substitute(KeptPieces[i], last.kwargs)])

C10_Witness ==
    /\ last.op = "format"
    /\ last.ok
    /\ "x" \in ExampleFields
    /\ "{x}" \notin Range(last.result[1])
    /\ self.prefix = <<>>
====
